---- MODULE Spec2Model ----
(***************************************************************************)
(* Verification model of the img-compress compression subsystem:           *)
(*   - CompressionService   (services/compressionService.ts, the pool)     *)
(*   - WASMCodecLoader      (services/wasmCodecLoader.ts, the codec cache) *)
(*   - SmartCompressor      (services/smartCompressor.ts, the strategy)    *)
(* JavaScript runs every handler to its first await without interleaving,  *)
(* so one action is one such run-to-completion segment.                    *)
(***************************************************************************)
EXTENDS Integers, Sequences, FiniteSets, TLC

(***************************************************************************)
(* Bounds of the model                                                     *)
(***************************************************************************)
MaxCalls == 3
NumIds == 3
MaxFaults == 1
MaxDestroys == 1
MaxGetCalls == 3
MaxDisposes == 1
MaxCompress == 3
MaxMessageErrors == 1
MaxCallsTeardown == 4

\* navigator.hardwareConcurrency of the machine modelled (0 where the browser
\* does not report it)
hardwareConcurrency == 2

\* navigator.hardwareConcurrency || 4 : the pool size N
maxWorkers == IF hardwareConcurrency = 0 THEN 4 ELSE hardwareConcurrency

Ids == 1..NumIds
Null == 0

VARIABLES
  workers,       \* CompressionService.workers: sequence of live worker identities
  tasks,         \* CompressionService.tasks: image id -> registered task
  queue,         \* CompressionService.queue: sequence of calls waiting
  isProcessing,  \* CompressionService.isProcessing
  calls,         \* every compressImage call made so far, in call order
  loops,         \* processQueue invocations suspended in their 100 ms wait
  timers,        \* pending setTimeout(initWorkers, 1000) callbacks
  created,       \* number of Worker objects constructed so far
  nfaults,       \* worker error events handled so far
  ndestroys,     \* destroy() calls made by the caller so far
  nmsgerrors,    \* messageerror events raised by workers so far
  batchp,        \* the promise of the compressImages call: none, pending, resolved, rejected
  loadedCodecs,    \* WASMCodecLoader.loadedCodecs: codec name -> module (its load), 0 if absent
  loadingPromises, \* WASMCodecLoader.loadingPromises: codec name -> load, 0 if absent
  loadAttempts,    \* WASMCodecLoader.loadAttempts: codec name -> count
  loads,           \* every promise loadCodec has returned so far
  gcalls,          \* every getCodec call made so far
  ndisposes,       \* dispose() calls made so far
  preload,         \* the preloadCommonCodecs call: its promise and its getCodec calls
  options,         \* SmartCompressor.options
  cmp,             \* the compress call in progress (or the last one finished)
  ncompress,       \* compress calls started so far
  dims,            \* the calculateDimensions call observed: its arguments and result
  prepared         \* the prepareWASMOptions call observed: its arguments and result

poolVars == <<workers, tasks, queue, isProcessing, calls, loops, timers,
              created, nfaults, ndestroys, nmsgerrors, batchp>>

codecVars == <<loadedCodecs, loadingPromises, loadAttempts, loads, gcalls, ndisposes,
               preload>>

compVars == <<options, cmp, ncompress, dims, prepared>>

vars == <<poolVars, codecVars, compVars>>

Range(s) == {s[i] : i \in 1..Len(s)}

Min(S) == CHOOSE x \in S : \A y \in S : x <= y

(***************************************************************************)
(* The state after construction: the module-level singletons, nothing      *)
(* submitted, nothing loaded.                                              *)
(***************************************************************************)
NoCall ==
  [pc |-> "idle", format |-> "", big |-> FALSE, canvasFails |-> "none",
   useWASM |-> FALSE, gcall |-> 0, wasmError |-> "none", canvasRan |-> FALSE,
   outcome |-> "none", error |-> <<>>, progress |-> <<>>, mime |-> "none",
   result |-> <<>>, byteLength |-> 0, imageBitmap |-> "none", canvas |-> "none"]

\* no calculateDimensions call observed yet
NoDims ==
  [called |-> FALSE, originalWidth |-> 0, originalHeight |-> 0, maxWidth |-> 0,
   maxHeight |-> 0, width |-> 0, height |-> 0,
   worker |-> [width |-> 0, height |-> 0]]

\* a key that prepareWASMOptions did not assign: it keeps the value spread from
\* the codec's defaultOptions
Unset == -1

\* no prepareWASMOptions call observed yet
NoPrepared ==
  [called |-> FALSE, format |-> "", quality |-> 0,
   options |-> [defaults |-> "", quality |-> Unset, cqLevel |-> Unset]]

Init ==
  /\ workers = <<>>
  /\ tasks = <<>>
  /\ queue = <<>>
  /\ isProcessing = FALSE
  /\ calls = <<>>
  /\ loops = 0
  /\ timers = 0
  /\ created = 0
  /\ nfaults = 0
  /\ ndestroys = 0
  /\ nmsgerrors = 0
  /\ batchp = "none"
  /\ loadedCodecs = [c \in {"mozjpeg", "oxipng", "webp", "avif"} |-> 0]
  /\ loadingPromises = [c \in {"mozjpeg", "oxipng", "webp", "avif"} |-> 0]
  /\ loadAttempts = [c \in {"mozjpeg", "oxipng", "webp", "avif"} |-> 0]
  /\ loads = <<>>
  /\ gcalls = <<>>
  /\ ndisposes = 0
  /\ preload = [status |-> "none", calls |-> <<>>]
  /\ options = [constructed |-> FALSE, preferWASM |-> TRUE, fallbackToCanvas |-> TRUE,
                maxWASMSize |-> 0]
  /\ cmp = NoCall
  /\ ncompress = 0
  /\ dims = NoDims
  /\ prepared = NoPrepared

(***************************************************************************)
(* CompressionService                                                      *)
(***************************************************************************)

\* A task holds the resolve/reject pair of one promise of one call:
\*   "outer" - the promise compressImage's queue branch returned to the caller
\*   "inner" - the promise created inside processImageWithWorker
Task(c, p) == [call |-> c, promise |-> p]

\* initWorkers without the test for an empty list (a mutant of initWorkers)
initWorkers_Always(ws, n) ==
  [workers |-> ws \o [i \in 1..maxWorkers |-> n + i], created |-> n + maxWorkers]

\* initWorkers: creates maxWorkers workers only when the list is empty
initWorkers(ws, n) ==
  IF Len(ws) = 0
    THEN [workers |-> [i \in 1..maxWorkers |-> n + i], created |-> n + maxWorkers]
    ELSE [workers |-> ws, created |-> n]

\* the filter of getAvailableWorker: the predicate never looks at the task
busyTasks(ws, ts, worker) ==
  {id \in DOMAIN ts : \E i \in 1..Len(ws) : ws[i] = worker}

\* getAvailableWorker: the first worker whose busyTasks is empty, or null
getAvailableWorker(ws, ts) ==
  LET idle == {i \in 1..Len(ws) : busyTasks(ws, ts, ws[i]) = {}}
  IN IF idle = {} THEN Null ELSE ws[Min(idle)]

\* Does settling the promise of task t settle the promise the caller holds?
\* The inner promise of a call started by processQueue is not awaited by anyone.
SettlesCaller(cs, t) ==
  t.promise = "outer" \/ cs[t.call].via = "direct"

\* task.resolve / task.reject
Settle(cs, t, how) ==
  IF SettlesCaller(cs, t) /\ cs[t.call].outcome = "none"
    THEN [cs EXCEPT ![t.call].outcome = how]
    ELSE cs

RECURSIVE SettleAll(_, _, _, _)
SettleAll(cs, ts, S, how) ==
  IF S = {} THEN cs
  ELSE LET id == Min(S)
       IN SettleAll(Settle(cs, ts[id], how), ts, S \ {id}, how)

\* the synchronous part of processImageWithWorker: up to await fileToArrayBuffer
StartRead(cs, c, worker, via) ==
  [cs EXCEPT ![c].st = "reading", ![c].worker = worker, ![c].via = via]

\* the while loop of processQueue, from one resumption to the next suspension
RECURSIVE DrainLoop(_, _, _, _)
DrainLoop(q, cs, ws, ts) ==
  IF Len(q) = 0
    THEN [queue |-> q, calls |-> cs, waiting |-> FALSE]
  ELSE LET availableWorker == getAvailableWorker(ws, ts)
       IN IF availableWorker = Null
            THEN [queue |-> q, calls |-> cs, waiting |-> TRUE]
            ELSE DrainLoop(Tail(q), StartRead(cs, Head(q), availableWorker, "queue"),
                           ws, ts)

\* processQueue, from its call to its first suspension or its return
processQueue(q, cs, ws, ts, busy, n) ==
  IF busy \/ Len(q) = 0
    THEN [queue |-> q, calls |-> cs, isProcessing |-> busy, loops |-> n]
  ELSE LET r == DrainLoop(q, cs, ws, ts)
       IN [queue |-> r.queue, calls |-> r.calls,
           isProcessing |-> r.waiting,
           loops |-> IF r.waiting THEN n + 1 ELSE n]

\* compressImage, from its call to its first suspension, on the state st
compressImage(st, id, inBatch) ==
  LET w == initWorkers(st.workers, st.created)
      c == Len(st.calls) + 1
      new == [id |-> id, st |-> "new", worker |-> Null, via |-> "direct",
              outcome |-> "none", batch |-> inBatch, cb |-> "none",
              reply |-> "none", notified |-> "none", torn |-> FALSE]
      cs == Append(st.calls, new)
      availableWorker == getAvailableWorker(w.workers, st.tasks)
  IN IF availableWorker # Null
       THEN [st EXCEPT !.workers = w.workers, !.created = w.created,
                       !.calls = StartRead(cs, c, availableWorker, "direct")]
       ELSE LET q == Append(st.queue, c)
                ts == [i \in DOMAIN st.tasks \cup {id} |->
                         IF i = id THEN Task(c, "outer") ELSE st.tasks[i]]
                cq == [cs EXCEPT ![c].st = "queued", ![c].via = "queue"]
                p == processQueue(q, cq, w.workers, ts, st.isProcessing, st.loops)
            IN [st EXCEPT !.workers = w.workers, !.created = w.created,
                          !.tasks = ts, !.queue = p.queue, !.calls = p.calls,
                          !.isProcessing = p.isProcessing, !.loops = p.loops]

PoolState ==
  [workers |-> workers, created |-> created, tasks |-> tasks, queue |-> queue,
   calls |-> calls, isProcessing |-> isProcessing, loops |-> loops,
   batchp |-> batchp]

SetPool(st) ==
  /\ workers' = st.workers
  /\ created' = st.created
  /\ tasks' = st.tasks
  /\ queue' = st.queue
  /\ calls' = st.calls
  /\ isProcessing' = st.isProcessing
  /\ loops' = st.loops
  /\ batchp' = st.batchp

\* images.map in compressImages: compressImage for every image, back to back
RECURSIVE mapCompressImage(_, _)
mapCompressImage(st, images) ==
  IF Len(images) = 0 THEN st
  ELSE mapCompressImage(compressImage(st, Head(images), TRUE), Tail(images))

\* compressImages, up to await Promise.allSettled
compressImages(st, images) ==
  LET w == initWorkers(st.workers, st.created)
  IN mapCompressImage([st EXCEPT !.workers = w.workers, !.created = w.created,
                                 !.batchp = "pending"],
                      images)

\* Promise.all in place of Promise.allSettled (a mutant of allSettled)
allSettled_All(cs, p) ==
  IF p # "pending" THEN p
  ELSE IF \E c \in DOMAIN cs : cs[c].batch /\ cs[c].outcome = "rejected"
    THEN "rejected"
  ELSE IF \A c \in DOMAIN cs : cs[c].batch => cs[c].outcome = "resolved"
    THEN "resolved"
  ELSE p

\* await Promise.allSettled(promises): the promise of compressImages resolves
\* once every promise of the map has settled, whatever their outcomes
allSettled(cs, p) ==
  IF p # "pending" THEN p
  ELSE IF \A c \in DOMAIN cs : cs[c].batch => cs[c].outcome # "none"
    THEN "resolved"
  ELSE p

\* the continuations that run once a handler has settled promises: the async
\* function of images.map resumes after await compressImage and invokes
\* onImageComplete or onImageError, then Promise.allSettled is re-evaluated
Microtasks(st) ==
  LET cs == [c \in DOMAIN st.calls |->
               IF st.calls[c].batch /\ st.calls[c].cb = "none"
                    /\ st.calls[c].outcome # "none"
                 THEN [st.calls[c] EXCEPT
                         !.cb = IF st.calls[c].outcome = "resolved"
                                  THEN "complete" ELSE "error"]
                 ELSE st.calls[c]]
  IN [st EXCEPT !.calls = cs, !.batchp = allSettled(cs, st.batchp)]

\* the ascending sequence of the elements of a set of ids
RECURSIVE SeqOf(_)
SeqOf(S) == IF S = {} THEN <<>> ELSE <<Min(S)>> \o SeqOf(S \ {Min(S)})

\* destroy(); torn records the calls whose caller was still waiting when it ran
\* (queued, reading their bytes or posted to a worker)
destroy(st) ==
  [st EXCEPT !.workers = <<>>,
             !.tasks = <<>>,
             !.queue = <<>>,
             !.isProcessing = FALSE,
             !.calls = [c \in DOMAIN st.calls |->
                          [st.calls[c] EXCEPT
                             !.st = IF @ = "queued" THEN "cleared" ELSE @,
                             !.torn = \/ @
                                      \/ /\ st.calls[c].outcome = "none"
                                         /\ st.calls[c].st \in
                                              {"queued", "reading", "posted"}]]]

\* handleWorkerError, up to the setTimeout
handleWorkerError(st) ==
  destroy([st EXCEPT !.calls = SettleAll(st.calls, st.tasks, DOMAIN st.tasks,
                                        "rejected"),
                     !.tasks = <<>>])

\* task.onProgress / task.onMethodInfo: the callback of the call that created the
\* task is invoked; "late" records that the caller's promise had already settled.
\* The task processImageWithWorker creates for a queued job has no onMethodInfo.
Notify(cs, t, type) ==
  IF type = "method_info" /\ ~(t.promise = "outer" \/ cs[t.call].via = "direct")
    THEN cs
  ELSE [cs EXCEPT ![t.call].notified =
          IF cs[t.call].outcome # "none" THEN "late"
          ELSE IF @ = "none" THEN "live" ELSE @]

\* a handler that routes a message with an unknown id to the first registered
\* task (a mutant of handleWorkerMessage)
handleWorkerMessage_FirstTask(st, id, type) ==
  IF DOMAIN st.tasks = {} THEN st
  ELSE LET k == IF id \in DOMAIN st.tasks THEN id ELSE Min(DOMAIN st.tasks)
       IN IF type = "progress" \/ type = "method_info"
            THEN [st EXCEPT !.calls = Notify(st.calls, st.tasks[k], type)]
            ELSE [st EXCEPT
                    !.tasks = [i \in DOMAIN st.tasks \ {k} |-> st.tasks[i]],
                    !.calls = Settle(st.calls, st.tasks[k],
                                     IF type = "success" THEN "resolved"
                                     ELSE "rejected")]

\* a handler whose 'error' case rejects and clears every task (a mutant of
\* handleWorkerMessage)
handleWorkerMessage_ErrorClearsAll(st, id, type) ==
  IF id \notin DOMAIN st.tasks THEN st
  ELSE IF type = "error"
    THEN [st EXCEPT !.tasks = <<>>,
                    !.calls = SettleAll(st.calls, st.tasks, DOMAIN st.tasks,
                                        "rejected")]
  ELSE IF type = "success"
    THEN [st EXCEPT
            !.tasks = [i \in DOMAIN st.tasks \ {id} |-> st.tasks[i]],
            !.calls = Settle(st.calls, st.tasks[id], "resolved")]
  ELSE [st EXCEPT !.calls = Notify(st.calls, st.tasks[id], type)]

\* handleWorkerMessage for a message of the given type tagged id
handleWorkerMessage(st, id, type) ==
  IF id \notin DOMAIN st.tasks THEN st
  ELSE CASE type = "progress" \/ type = "method_info" ->
              [st EXCEPT !.calls = Notify(st.calls, st.tasks[id], type)]
         [] type = "success" ->
              [st EXCEPT
                 !.tasks = [i \in DOMAIN st.tasks \ {id} |-> st.tasks[i]],
                 !.calls = Settle(st.calls, st.tasks[id], "resolved")]
         [] type = "error" ->
              [st EXCEPT
                 !.tasks = [i \in DOMAIN st.tasks \ {id} |-> st.tasks[i]],
                 !.calls = Settle(st.calls, st.tasks[id], "rejected")]

----------------------------------------------------------------------------
(* Actions of the pool *)

\* the largest image id submitted so far
MaxUsed == IF Len(calls) = 0 THEN 0
           ELSE CHOOSE m \in {calls[c].id : c \in DOMAIN calls} :
                  \A c \in DOMAIN calls : calls[c].id <= m

\* a caller invokes compressImage(imageFile).  The image is one submitted before
\* (HomeView.startCompression resubmits every image still 'pending', and the pool
\* itself accepts any id) or a new one; new ids are taken in ascending order, ids
\* being interchangeable.
Submit(id) ==
  /\ Len(calls) < MaxCalls
  /\ id <= MaxUsed + 1
  /\ SetPool(compressImage(PoolState, id, FALSE))
  /\ UNCHANGED <<timers, nfaults, ndestroys, nmsgerrors, codecVars, compVars>>

\* a caller invokes compressImages on a set of two or more images
SubmitBatch(S) ==
  /\ Cardinality(S) >= 2
  /\ \A id \in S : id <= MaxUsed + Cardinality({j \in S : j > MaxUsed})
  /\ Len(calls) + Cardinality(S) <= MaxCalls
  /\ \A c \in DOMAIN calls : ~calls[c].batch
  /\ SetPool(compressImages(PoolState, SeqOf(S)))
  /\ UNCHANGED <<timers, nfaults, ndestroys, nmsgerrors, codecVars, compVars>>

\* fileToArrayBuffer resolves: the task is registered and the message posted
ReadDone(c) ==
  /\ c \in DOMAIN calls
  /\ calls[c].st = "reading"
  /\ tasks' = [i \in DOMAIN tasks \cup {calls[c].id} |->
                 IF i = calls[c].id THEN Task(c, "inner") ELSE tasks[i]]
  /\ calls' = [calls EXCEPT ![c].st = "posted"]
  /\ UNCHANGED <<workers, queue, isProcessing, loops, timers, created,
                 nfaults, ndestroys, batchp, nmsgerrors, codecVars, compVars>>

\* fileToArrayBuffer rejects: the catch block deletes the id and rethrows
ReadFail(c) ==
  /\ c \in DOMAIN calls
  /\ calls[c].st = "reading"
  /\ SetPool(Microtasks(
               [PoolState EXCEPT
                  !.tasks = [i \in DOMAIN tasks \ {calls[c].id} |-> tasks[i]],
                  !.calls = [calls EXCEPT ![c].st = "readfail",
                                          ![c].outcome = IF calls[c].via = "direct"
                                                           THEN "rejected" ELSE @]]))
  /\ UNCHANGED <<timers, nfaults, ndestroys, nmsgerrors, codecVars, compVars>>

\* the worker that was posted call c sends its terminal message
WorkerReply(c, type) ==
  /\ c \in DOMAIN calls
  /\ calls[c].st = "posted"
  /\ calls[c].worker \in Range(workers)
  /\ SetPool(Microtasks(handleWorkerMessage(
               [PoolState EXCEPT !.calls[c].st = "answered", !.calls[c].reply = type],
               calls[c].id, type)))
  /\ UNCHANGED <<timers, nfaults, ndestroys, nmsgerrors, codecVars, compVars>>

\* the worker that was posted call c reports progress or the method it used
WorkerNotify(c, type) ==
  /\ c \in DOMAIN calls
  /\ calls[c].st = "posted"
  /\ calls[c].worker \in Range(workers)
  /\ SetPool(handleWorkerMessage(PoolState, calls[c].id, type))
  /\ UNCHANGED <<timers, nfaults, ndestroys, nmsgerrors, codecVars, compVars>>

\* a suspended processQueue loop resumes after its 100 ms wait
ProcessQueueWake ==
  /\ loops > 0
  /\ LET r == DrainLoop(queue, calls, workers, tasks)
     IN IF r.waiting
          THEN UNCHANGED <<queue, calls, isProcessing, loops>>
          ELSE /\ queue' = r.queue
               /\ calls' = r.calls
               /\ isProcessing' = FALSE
               /\ loops' = loops - 1
  /\ UNCHANGED <<workers, tasks, timers, created, nfaults, ndestroys, batchp,
                 nmsgerrors, codecVars, compVars>>

\* a live worker raises an error event
WorkerFault ==
  /\ Len(workers) > 0
  /\ nfaults < MaxFaults
  /\ SetPool(Microtasks(handleWorkerError(PoolState)))
  /\ timers' = timers + 1
  /\ nfaults' = nfaults + 1
  /\ UNCHANGED <<ndestroys, nmsgerrors, codecVars, compVars>>

\* a live worker raises a messageerror event: the listener createWorker installed
\* logs it
MessageError ==
  /\ Len(workers) > 0
  /\ nmsgerrors < MaxMessageErrors
  /\ nmsgerrors' = nmsgerrors + 1
  /\ UNCHANGED <<workers, tasks, queue, isProcessing, calls, loops, timers,
                 created, nfaults, ndestroys, batchp, codecVars, compVars>>

\* the 1000 ms timer set by handleWorkerError fires
CooldownExpire ==
  /\ timers > 0
  /\ LET w == initWorkers(workers, created)
     IN /\ workers' = w.workers
        /\ created' = w.created
  /\ timers' = timers - 1
  /\ UNCHANGED <<tasks, queue, isProcessing, calls, loops, nfaults, ndestroys,
                 batchp, nmsgerrors, codecVars, compVars>>

\* the caller invokes destroy()
Destroy ==
  /\ ndestroys < MaxDestroys
  /\ SetPool(destroy(PoolState))
  /\ ndestroys' = ndestroys + 1
  /\ UNCHANGED <<timers, nfaults, nmsgerrors, codecVars, compVars>>

PoolInternal ==
  \/ \E c \in 1..MaxCalls : ReadDone(c)
  \/ \E c \in 1..MaxCalls : ReadFail(c)
  \/ \E c \in 1..MaxCalls, type \in {"success", "error"} : WorkerReply(c, type)
  \/ \E c \in 1..MaxCalls, type \in {"progress", "method_info"} : WorkerNotify(c, type)
  \/ ProcessQueueWake
  \/ CooldownExpire

PoolNextLive ==
  \/ \E id \in Ids : Submit(id)
  \/ \E S \in SUBSET Ids : SubmitBatch(S)
  \/ WorkerFault
  \/ PoolInternal

PoolNext ==
  \/ PoolNextLive
  \/ Destroy

\* compressImage called by a caller that goes on submitting after a teardown
SubmitMore(id) ==
  /\ Len(calls) < MaxCallsTeardown
  /\ id <= MaxUsed + 1
  /\ SetPool(compressImage(PoolState, id, FALSE))
  /\ UNCHANGED <<timers, nfaults, ndestroys, nmsgerrors, codecVars, compVars>>

\* the pool under single submissions, success messages, faults and destroy(),
\* with one call more than in PoolNext
PoolTeardownNext ==
  \/ \E id \in Ids : SubmitMore(id)
  \/ \E c \in 1..MaxCallsTeardown : ReadDone(c)
  \/ \E c \in 1..MaxCallsTeardown : WorkerReply(c, "success")
  \/ ProcessQueueWake
  \/ WorkerFault
  \/ CooldownExpire
  \/ Destroy

\* the pool with workers that may also raise messageerror events
PoolMsgNext ==
  \/ PoolNextLive
  \/ MessageError


(***************************************************************************)
(* WASMCodecLoader                                                         *)
(***************************************************************************)

\* WASMCodecLoader.maxRetries
maxRetries == 2

NoCodec == "null"

\* Object.entries(CODEC_CONFIGS), in insertion order
CodecOrder == <<"mozjpeg", "oxipng", "webp", "avif">>

Codecs == Range(CodecOrder)

CODEC_CONFIGS ==
  [mozjpeg |-> [name |-> "MozJPEG", formats |-> {"jpeg", "jpg"}, priority |-> 1],
   oxipng  |-> [name |-> "OxiPNG",  formats |-> {"png"},         priority |-> 1],
   webp    |-> [name |-> "WebP",    formats |-> {"webp"},        priority |-> 1],
   avif    |-> [name |-> "AVIF",    formats |-> {"avif"},        priority |-> 2]]

\* String.prototype.toLowerCase on the format strings the model uses
toLowerCase(format) ==
  CASE format = "JPEG" -> "jpeg"
    [] format = "JPG"  -> "jpg"
    [] format = "WebP" -> "webp"
    [] format = "GIF"  -> "gif"
    [] OTHER -> format

\* getCodecName / getCodecNamePrivate
getCodecName(format) ==
  LET normalizedFormat == toLowerCase(format)
      hits == {i \in 1..Len(CodecOrder) :
                 normalizedFormat \in CODEC_CONFIGS[CodecOrder[i]].formats}
  IN IF hits = {} THEN NoCodec ELSE CodecOrder[Min(hits)]

\* isFormatSupported
isFormatSupported(format) == getCodecName(format) # NoCodec

CodecState ==
  [loadedCodecs |-> loadedCodecs, loadingPromises |-> loadingPromises,
   loadAttempts |-> loadAttempts, loads |-> loads, gcalls |-> gcalls,
   ndisposes |-> ndisposes, preload |-> preload]

SetCodec(st) ==
  /\ loadedCodecs' = st.loadedCodecs
  /\ loadingPromises' = st.loadingPromises
  /\ loadAttempts' = st.loadAttempts
  /\ loads' = st.loads
  /\ gcalls' = st.gcalls
  /\ preload' = st.preload

\* loadCodec without the retry ceiling (a mutant of loadCodec)
loadCodec_NoCeiling(st, codecName) ==
  [st EXCEPT !.loadAttempts[codecName] = st.loadAttempts[codecName] + 1,
             !.loads = Append(@, [codec |-> codecName, status |-> "pending",
                                   invoked |-> TRUE])]

\* loadCodec, up to await config.loader(): the promise it returns.  At the retry
\* ceiling it throws before the loader is invoked, so the promise is born rejected.
loadCodec(st, codecName) ==
  LET attempts == st.loadAttempts[codecName]
  IN IF attempts >= maxRetries
       THEN [st EXCEPT !.loads = Append(@, [codec |-> codecName,
                                             status |-> "rejected",
                                             invoked |-> FALSE])]
       ELSE [st EXCEPT !.loadAttempts[codecName] = attempts + 1,
                       !.loads = Append(@, [codec |-> codecName,
                                             status |-> "pending",
                                             invoked |-> TRUE])]

\* what a getCodec call returns: null, or the module a load produced
NullResult == <<"null">>

Module(l) == <<"module", l>>

NotReturned == <<>>

\* the promise of getCodec rejected (an exception reached the caller)
Thrown == <<"throw">>

\* how many rejected loader runs the codec has had
Failures(ls, codecName) ==
  Cardinality({l \in 1..Len(ls) : /\ ls[l].codec = codecName
                                  /\ ls[l].invoked
                                  /\ ls[l].status = "rejected"})

\* getCodec without the in-flight check (a mutant of getCodec)
getCodec_NoDedup(st, format) ==
  LET codecName == getCodecName(format)
      call == [format |-> format, codec |-> codecName, pc |-> "done",
               load |-> 0, result |-> NullResult,
               failures |-> IF codecName = NoCodec THEN 0
                            ELSE Failures(st.loads, codecName),
               epoch |-> st.ndisposes]
  IN IF codecName = NoCodec
       THEN [st EXCEPT !.gcalls = Append(@, call)]
     ELSE IF st.loadedCodecs[codecName] # 0
       THEN [st EXCEPT !.gcalls = Append(@, [call EXCEPT
                                   !.result = Module(st.loadedCodecs[codecName])])]
     ELSE LET l == loadCodec(st, codecName)
              loadingPromise == Len(l.loads)
          IN [l EXCEPT !.loadingPromises[codecName] = loadingPromise,
                       !.gcalls = Append(@, [call EXCEPT
                                     !.pc = "awaitOwn",
                                     !.load = loadingPromise,
                                     !.result = NotReturned])]

\* getCodec, from its call to its first await or its return
getCodec(st, format) ==
  LET codecName == getCodecName(format)
      call == [format |-> format, codec |-> codecName, pc |-> "done",
               load |-> 0, result |-> NullResult,
               failures |-> IF codecName = NoCodec THEN 0
                            ELSE Failures(st.loads, codecName),
               epoch |-> st.ndisposes]
  IN IF codecName = NoCodec
       THEN [st EXCEPT !.gcalls = Append(@, call)]
     ELSE IF st.loadedCodecs[codecName] # 0
       THEN [st EXCEPT !.gcalls = Append(@, [call EXCEPT
                                   !.result = Module(st.loadedCodecs[codecName])])]
     ELSE IF st.loadingPromises[codecName] # 0
       THEN [st EXCEPT !.gcalls = Append(@, [call EXCEPT
                                   !.pc = "awaitOther",
                                   !.load = st.loadingPromises[codecName],
                                   !.result = NotReturned])]
     ELSE LET l == loadCodec(st, codecName)
              loadingPromise == Len(l.loads)
          IN [l EXCEPT !.loadingPromises[codecName] = loadingPromise,
                       !.gcalls = Append(@, [call EXCEPT
                                     !.pc = "awaitOwn",
                                     !.load = loadingPromise,
                                     !.result = NotReturned])]

\* getCodec without its catch blocks (a mutant of resumeGetCodec)
resumeGetCodec_NoCatch(st, k) ==
  LET call == st.gcalls[k]
      ok == st.loads[call.load].status = "resolved"
  IN IF ~ok
       THEN [st EXCEPT !.gcalls[k].pc = "done", !.gcalls[k].result = Thrown]
     ELSE IF call.pc = "awaitOther"
       THEN [st EXCEPT !.gcalls[k].pc = "done",
                       !.gcalls[k].result = Module(call.load)]
       ELSE [st EXCEPT !.loadedCodecs[call.codec] = call.load,
                       !.loadingPromises[call.codec] = 0,
                       !.gcalls[k].pc = "done",
                       !.gcalls[k].result = Module(call.load)]

\* getCodec call k resumes after its await: the promise it awaited has settled
resumeGetCodec(st, k) ==
  LET call == st.gcalls[k]
      ok == st.loads[call.load].status = "resolved"
  IN IF call.pc = "awaitOther"
       THEN [st EXCEPT !.gcalls[k].pc = "done",
                       !.gcalls[k].result = IF ok THEN Module(call.load) ELSE NullResult]
     ELSE IF ok
       THEN [st EXCEPT !.loadedCodecs[call.codec] = call.load,
                       !.loadingPromises[call.codec] = 0,
                       !.gcalls[k].pc = "done",
                       !.gcalls[k].result = Module(call.load)]
       ELSE [st EXCEPT !.loadingPromises[call.codec] = 0,
                       !.gcalls[k].pc = "done",
                       !.gcalls[k].result = NullResult]

\* const commonCodecs = ['mozjpeg', 'webp']
commonCodecs == <<"mozjpeg", "webp">>

\* CODEC_CONFIGS[codecName].formats[0]
firstFormat(codecName) ==
  CASE codecName = "mozjpeg" -> "jpeg"
    [] codecName = "oxipng" -> "png"
    [] codecName = "webp" -> "webp"
    [] codecName = "avif" -> "avif"

\* commonCodecs.map: each async function runs getCodec to its first await, one
\* after the other; r.calls collects the getCodec calls made
RECURSIVE mapGetCodec(_, _, _)
mapGetCodec(st, names, ks) ==
  IF Len(names) = 0 THEN [st EXCEPT !.preload.calls = ks]
  ELSE LET s1 == getCodec(st, firstFormat(Head(names)))
       IN mapGetCodec(s1, Tail(names), Append(ks, Len(s1.gcalls)))

\* preloadCommonCodecs, up to await Promise.allSettled
preloadCommonCodecs(st) ==
  mapGetCodec([st EXCEPT !.preload.status = "pending"], commonCodecs, <<>>)

\* a preload that rejects as soon as one of its codecs failed to load (a mutant of
\* preloadContinue)
preloadContinue_FailFast(st) ==
  LET ks == Range(st.preload.calls)
  IN IF st.preload.status # "pending" THEN st
     ELSE IF \E k \in ks : st.gcalls[k].pc = "done" /\ st.gcalls[k].result = NullResult
       THEN [st EXCEPT !.preload.status = "rejected"]
     ELSE IF \A k \in ks : st.gcalls[k].pc = "done"
       THEN [st EXCEPT !.preload.status = "resolved"]
     ELSE st

\* the continuations of preloadCommonCodecs: each async function of the map ends
\* when its getCodec call has returned (an exception would be caught and logged),
\* and Promise.allSettled resolves when all of them have ended
preloadContinue(st) ==
  LET ks == Range(st.preload.calls)
  IN IF st.preload.status # "pending" THEN st
     ELSE IF \A k \in ks : st.gcalls[k].pc = "done"
       THEN [st EXCEPT !.preload.status = "resolved"]
     ELSE st

\* the format strings callers pass to getCodec
FormatInputs == {"jpeg", "JPG", "webp", "gif"}

\* a caller invokes getCodec(format)
GetCodec(format) ==
  /\ Len(gcalls) < MaxGetCalls
  /\ SetCodec(getCodec(CodecState, format))
  /\ UNCHANGED <<ndisposes, poolVars, compVars>>

\* config.loader() of load l resolves
LoaderResolve(l) ==
  /\ l \in DOMAIN loads
  /\ loads[l].status = "pending"
  /\ loads' = [loads EXCEPT ![l].status = "resolved"]
  /\ UNCHANGED <<loadedCodecs, loadingPromises, loadAttempts, gcalls, ndisposes,
                 preload, poolVars, compVars>>

\* config.loader() of load l rejects
LoaderReject(l) ==
  /\ l \in DOMAIN loads
  /\ loads[l].status = "pending"
  /\ loads' = [loads EXCEPT ![l].status = "rejected"]
  /\ UNCHANGED <<loadedCodecs, loadingPromises, loadAttempts, gcalls, ndisposes,
                 preload, poolVars, compVars>>

\* getCodec call k continues after its await
ResumeGetCodec(k) ==
  /\ k \in DOMAIN gcalls
  /\ gcalls[k].pc \in {"awaitOwn", "awaitOther"}
  /\ loads[gcalls[k].load].status # "pending"
  /\ SetCodec(preloadContinue(resumeGetCodec(CodecState, k)))
  /\ UNCHANGED <<ndisposes, poolVars, compVars>>

\* a caller invokes preloadCommonCodecs()
Preload ==
  /\ preload.status = "none"
  /\ Len(gcalls) + Len(commonCodecs) <= MaxGetCalls
  /\ SetCodec(preloadContinue(preloadCommonCodecs(CodecState)))
  /\ UNCHANGED <<ndisposes, poolVars, compVars>>

\* a caller invokes dispose()
Dispose ==
  /\ ndisposes < MaxDisposes
  /\ loadedCodecs' = [c \in Codecs |-> 0]
  /\ loadingPromises' = [c \in Codecs |-> 0]
  /\ loadAttempts' = [c \in Codecs |-> 0]
  /\ ndisposes' = ndisposes + 1
  /\ UNCHANGED <<loads, gcalls, preload, poolVars, compVars>>

CodecNext ==
  \/ \E format \in FormatInputs : GetCodec(format)
  \/ \E l \in 1..(MaxGetCalls + MaxCompress) : LoaderResolve(l)
  \/ \E l \in 1..(MaxGetCalls + MaxCompress) : LoaderReject(l)
  \/ \E k \in 1..(MaxGetCalls + MaxCompress) : ResumeGetCodec(k)
  \/ Preload
  \/ Dispose

(***************************************************************************)
(* SmartCompressor                                                         *)
(***************************************************************************)

\* 1 MiB
MiB == 1024 * 1024

\* SmartCompressor's constructor defaults, and the options the worker passes
DefaultOptions ==
  [constructed |-> TRUE, preferWASM |-> TRUE, fallbackToCanvas |-> TRUE,
   maxWASMSize |-> 50 * MiB]

WorkerOptions ==
  [constructed |-> TRUE, preferWASM |-> TRUE, fallbackToCanvas |-> TRUE,
   maxWASMSize |-> 20 * MiB]

\* the option sets a SmartCompressor is constructed with
OptionSets ==
  {[DefaultOptions EXCEPT !.preferWASM = p, !.fallbackToCanvas = f] :
     p \in BOOLEAN, f \in BOOLEAN} \cup {WorkerOptions}

\* the settings.format values of compress calls: the four of CompressionSettings
\* and one the type does not name
CompressFormats == {"jpeg", "png", "avif", "gif"}

\* where the fallback path, run alone on the input, would fail
CanvasFailures == {"none", "decode", "blob"}

\* shouldUseWASM with a size test that excludes the ceiling itself (a mutant of
\* shouldUseWASM)
shouldUseWASM_Strict(opts, byteLength, format) ==
  IF ~opts.preferWASM THEN FALSE
  ELSE IF byteLength >= opts.maxWASMSize THEN FALSE
  ELSE IF ~isFormatSupported(format) THEN FALSE
  ELSE TRUE

\* shouldUseWASM
shouldUseWASM(opts, byteLength, format) ==
  IF ~opts.preferWASM THEN FALSE
  ELSE IF byteLength > opts.maxWASMSize THEN FALSE
  ELSE IF ~isFormatSupported(format) THEN FALSE
  ELSE TRUE

\* getMimeType
getMimeType(format) ==
  CASE format \in {"jpeg", "jpg"} -> "image/jpeg"
    [] format = "png" -> "image/png"
    [] format = "webp" -> "image/webp"
    [] format = "avif" -> "image/avif"
    [] OTHER -> "image/jpeg"

Emit(c, percents) == [c EXCEPT !.progress = @ \o percents]

\* compressWithCanvas, up to await createImageBitmap
canvasStart(c) ==
  [Emit(c, <<15>>) EXCEPT !.pc = "canvas_decode", !.canvasRan = TRUE]

\* a catch block that always rethrows (a mutant of compressCatch)
compressCatch_Rethrow(c, opts, stage) ==
  [c EXCEPT !.pc = "done", !.wasmError = stage, !.outcome = "rejected",
            !.error = <<"wasm", stage>>]

\* a catch block that never rethrows (a mutant of compressCatch)
compressCatch_Swallow(c, opts, stage) ==
  canvasStart([c EXCEPT !.wasmError = stage])

\* the catch block of compress: an exception of the WASM path at the given stage
compressCatch(c, opts, stage) ==
  IF ~opts.fallbackToCanvas
    THEN [c EXCEPT !.pc = "done", !.wasmError = stage, !.outcome = "rejected",
                   !.error = <<"wasm", stage>>]
    ELSE canvasStart([c EXCEPT !.wasmError = stage])

\* compressWithCanvas serialising with the MIME type of the requested format (a
\* mutant of canvasDecoded)
canvasDecoded_RequestedMime(c) ==
  IF c.canvasFails = "decode"
    THEN [c EXCEPT !.pc = "done", !.outcome = "rejected",
                   !.error = <<"canvas", "decode">>]
    ELSE [Emit(c, <<30, 50, 70, 90>>) EXCEPT
            !.pc = "canvas_blob",
            !.mime = getMimeType(c.format)]

\* compressWithCanvas after createImageBitmap settled, up to await convertToBlob
canvasDecoded(c) ==
  IF c.canvasFails = "decode"
    THEN [c EXCEPT !.pc = "done", !.outcome = "rejected",
                   !.error = <<"canvas", "decode">>]
    ELSE [Emit(c, <<30, 50, 70, 90>>) EXCEPT
            !.pc = "canvas_blob",
            !.mime = IF c.format = "avif" THEN "image/webp"
                     ELSE getMimeType(c.format)]

\* compressWithCanvas after convertToBlob settled, up to await arrayBuffer
canvasBlob(c) ==
  IF c.canvasFails = "blob"
    THEN [c EXCEPT !.pc = "done", !.outcome = "rejected",
                   !.error = <<"canvas", "blob">>]
    ELSE [c EXCEPT !.pc = "canvas_buffer"]

\* the properties every result object has
ResultKeys == {"compressedData", "originalSize", "compressedSize", "dimensions"}

\* a fallback path that names an encoder in its result (a mutant of canvasBuffer)
canvasBuffer_NamesCodec(c) ==
  [Emit(c, <<100>>) EXCEPT !.pc = "done", !.outcome = "resolved",
                           !.result = [method |-> "canvas", codec |-> "canvas",
                                       keys |-> ResultKeys \cup {"method", "codec"}]]

\* a fallback path that returns without its last progress report (a mutant of
\* canvasBuffer)
canvasBuffer_Silent(c) ==
  [c EXCEPT !.pc = "done", !.outcome = "resolved",
            !.result = [method |-> "canvas", codec |-> "none",
                        keys |-> ResultKeys \cup {"method"}]]

\* compressWithCanvas after arrayBuffer settled: the result is returned; it has a
\* method property and no codec property
canvasBuffer(c) ==
  [Emit(c, <<100>>) EXCEPT !.pc = "done", !.outcome = "resolved",
                           !.result = [method |-> "canvas", codec |-> "none",
                                       keys |-> ResultKeys \cup {"method"}]]

\* the SmartCompressor is constructed (enablePreload off, as in the worker)
NewSmartCompressor(opts) ==
  /\ ~options.constructed
  /\ options' = opts
  /\ UNCHANGED <<cmp, ncompress, dims, prepared, poolVars, codecVars>>

\* compress(imageData, settings), up to its first await
StartCompress(format, byteLength, canvasFails) ==
  /\ options.constructed
  /\ cmp.pc \in {"idle", "done"}
  /\ ncompress < MaxCompress
  /\ ncompress' = ncompress + 1
  /\ LET c0 == Emit([NoCall EXCEPT !.format = format,
                                   !.byteLength = byteLength,
                                   !.big = byteLength > options.maxWASMSize,
                                   !.canvasFails = canvasFails], <<5>>)
         use == shouldUseWASM(options, byteLength, format)
     IN IF use
          THEN LET st == getCodec(CodecState, format)
               IN /\ SetCodec(st)
                  /\ cmp' = [Emit(c0, <<10, 15>>) EXCEPT
                               !.useWASM = TRUE, !.pc = "wasm_getCodec",
                               !.gcall = Len(st.gcalls)]
          ELSE /\ cmp' = canvasStart(c0)
               /\ UNCHANGED <<loadedCodecs, loadingPromises, loadAttempts, loads,
                              gcalls, preload>>
  /\ UNCHANGED <<options, dims, prepared, ndisposes, poolVars>>

\* compressWithWASM after getCodec returned, up to await createImageBitmap
WasmGotCodec ==
  /\ cmp.pc = "wasm_getCodec"
  /\ gcalls[cmp.gcall].pc = "done"
  /\ cmp' = IF gcalls[cmp.gcall].result = NullResult
              THEN compressCatch(cmp, options, "codec")
              ELSE [Emit(cmp, <<25>>) EXCEPT !.pc = "wasm_decode"]
  /\ UNCHANGED <<options, ncompress, dims, prepared, poolVars, codecVars>>

\* compressWithWASM after createImageBitmap settled, up to await codec.encode:
\* decoding, drawImage or getImageData may throw.  imageBitmap and canvas are the
\* two objects of the WASM path: the bitmap is closed right after drawImage, the
\* canvas is reset to 0 x 0 after codec.encode has returned
WasmDecoded(r) ==
  /\ cmp.pc = "wasm_decode"
  /\ cmp' = CASE r = "decode" -> compressCatch(cmp, options, "decode")
              [] r = "render" ->
                   compressCatch([Emit(cmp, <<35, 45>>) EXCEPT
                                    !.imageBitmap = "open", !.canvas = "open"],
                                 options, "render")
              [] r = "pixels" ->
                   compressCatch([Emit(cmp, <<35, 45, 60>>) EXCEPT
                                    !.imageBitmap = "closed", !.canvas = "open"],
                                 options, "pixels")
              [] OTHER -> [Emit(cmp, <<35, 45, 60, 70, 80>>) EXCEPT
                             !.pc = "wasm_encode",
                             !.imageBitmap = "closed", !.canvas = "open"]
  /\ UNCHANGED <<options, ncompress, dims, prepared, poolVars, codecVars>>

\* compressWithWASM after codec.encode settled
WasmEncoded(ok) ==
  /\ cmp.pc = "wasm_encode"
  /\ cmp' = IF ok
              THEN [Emit(cmp, <<95, 100>>) EXCEPT
                      !.pc = "done", !.outcome = "resolved",
                      !.canvas = "released",
                      !.result = [method |-> "wasm",
                                  codec |-> IF getCodecName(cmp.format) = NoCodec
                                              THEN cmp.format
                                              ELSE getCodecName(cmp.format),
                                  keys |-> ResultKeys \cup {"method", "codec"}]]
              ELSE compressCatch(cmp, options, "encode")
  /\ UNCHANGED <<options, ncompress, dims, prepared, poolVars, codecVars>>

\* the fallback path continues after createImageBitmap settled
CanvasDecoded ==
  /\ cmp.pc = "canvas_decode"
  /\ cmp' = canvasDecoded(cmp)
  /\ UNCHANGED <<options, ncompress, dims, prepared, poolVars, codecVars>>

\* the fallback path continues after convertToBlob settled
CanvasBlob ==
  /\ cmp.pc = "canvas_blob"
  /\ cmp' = canvasBlob(cmp)
  /\ UNCHANGED <<options, ncompress, dims, prepared, poolVars, codecVars>>

\* the fallback path continues after arrayBuffer settled
CanvasBuffer ==
  /\ cmp.pc = "canvas_buffer"
  /\ cmp' = canvasBuffer(cmp)
  /\ UNCHANGED <<options, ncompress, dims, prepared, poolVars, codecVars>>

CompressNext ==
  \/ \E opts \in OptionSets : NewSmartCompressor(opts)
  \/ \E format \in CompressFormats, over \in {0, 1}, canvasFails \in CanvasFailures :
       StartCompress(format, options.maxWASMSize + over, canvasFails)
  \/ WasmGotCodec
  \/ \E r \in {"decode", "render", "pixels", "ok"} : WasmDecoded(r)
  \/ \E ok \in BOOLEAN : WasmEncoded(ok)
  \/ CanvasDecoded
  \/ CanvasBlob
  \/ CanvasBuffer
  \/ \E l \in 1..(MaxGetCalls + MaxCompress) : LoaderResolve(l)
  \/ \E l \in 1..(MaxGetCalls + MaxCompress) : LoaderReject(l)
  \/ \E k \in 1..(MaxGetCalls + MaxCompress) : ResumeGetCodec(k)
(***************************************************************************)
(* Specifications                                                          *)
(***************************************************************************)

SpecCodec == Init /\ [][CodecNext]_vars

SpecCompress == Init /\ [][CompressNext]_vars

(***************************************************************************)
(* self.onmessage of the worker, for the 'compress' request served by the  *)
(* compress call c: the types of the messages it has posted so far.  The   *)
(* progress callback posts one message per report, synchronously; after    *)
(* compress has returned the handler posts method_info when result.method  *)
(* is set and then success; when compress has thrown it posts error.  All  *)
(* of them carry the id of the request, a constant of the handler's        *)
(* closure.                                                                *)
(***************************************************************************)

\* a handler that reports the method after the success message (a mutant of
\* onmessage)
onmessage_InfoLast(c) ==
  [i \in 1..Len(c.progress) |-> "progress"]
    \o (IF c.pc # "done" THEN <<>>
        ELSE IF c.outcome = "resolved"
          THEN <<"success">>
                 \o (IF "method" \in c.result.keys THEN <<"method_info">> ELSE <<>>)
        ELSE <<"error">>)

\* self.onmessage
onmessage(c) ==
  [i \in 1..Len(c.progress) |-> "progress"]
    \o (IF c.pc # "done" THEN <<>>
        ELSE IF c.outcome = "resolved"
          THEN (IF "method" \in c.result.keys THEN <<"method_info">> ELSE <<>>)
                 \o <<"success">>
        ELSE <<"error">>)

(***************************************************************************)
(* calculateDimensions.  The sizes are positive integers and the bounds     *)
(* are positive integers or unset (0: `!maxWidth` holds of undefined and    *)
(* of 0 alike).  The intermediate sizes are doubles; they are kept here as  *)
(* exact fractions n/d.  A quotient of two integers is rounded to the       *)
(* nearest double, which is exact whenever the quotient is an integer or a  *)
(* half-integer, so Math.round of it is Math.round of the fraction.  The    *)
(* second clamp divides by newHeight, itself a rounded double: when         *)
(* newHeight is not representable the quotient can land just below a        *)
(* half-integer that the exact value hits, and Math.round then goes down    *)
(* instead of up.  The direction of that error is the input err.            *)
(***************************************************************************)
MaxSide == 10

\* image sizes: small ones and the sizes of the documented example
Sides == 1..MaxSide \cup {400, 800}

\* settings.maxWidth / settings.maxHeight: unset (0), small, and the example's
Limits == 0..MaxSide \cup {200}

\* direction of the rounding error of an inexact double quotient
RoundingErrors == {-1, 0}

RECURSIVE GCD(_, _)
GCD(a, b) == IF b = 0 THEN a ELSE GCD(b, a % b)

RECURSIVE IsPowerOfTwo(_)
IsPowerOfTwo(d) == d = 1 \/ (d % 2 = 0 /\ IsPowerOfTwo(d \div 2))

\* the quotient n / d of two small integers is a double exactly
Representable(n, d) == IsPowerOfTwo(d \div GCD(n, d))

\* n / d is k + 1/2 for an integer k
IsHalfInteger(n, d) == (2 * n) % d = 0 /\ ((2 * n) \div d) % 2 = 1

\* Math.round of the double nearest to n / d, the double being off by err
Round(n, d, err) ==
  IF err < 0 /\ IsHalfInteger(n, d) THEN n \div d
  ELSE (2 * n + d) \div (2 * d)

\* calculateDimensions clamping each side on its own (a mutant of
\* calculateDimensions)
calculateDimensions_Independent(originalWidth, originalHeight, maxWidth, maxHeight, err) ==
  [width |-> IF maxWidth # 0 /\ originalWidth > maxWidth
               THEN maxWidth ELSE originalWidth,
   height |-> IF maxHeight # 0 /\ originalHeight > maxHeight
                THEN maxHeight ELSE originalHeight]

\* calculateDimensions without its second clamp (a mutant of calculateDimensions)
calculateDimensions_WidthOnly(originalWidth, originalHeight, maxWidth, maxHeight, err) ==
  IF maxWidth = 0 /\ maxHeight = 0
    THEN [width |-> originalWidth, height |-> originalHeight]
  ELSE IF maxWidth # 0 /\ originalWidth > maxWidth
    THEN [width |-> maxWidth,
          height |-> Round(originalHeight * maxWidth, originalWidth, 0)]
  ELSE [width |-> originalWidth, height |-> originalHeight]

\* calculateDimensions scaling to the width bound whether or not the image
\* exceeds it (a mutant of calculateDimensions)
calculateDimensions_Fit(originalWidth, originalHeight, maxWidth, maxHeight, err) ==
  IF maxWidth = 0 /\ maxHeight = 0
    THEN [width |-> originalWidth, height |-> originalHeight]
  ELSE LET byWidth == maxWidth # 0
           hn == IF byWidth THEN originalHeight * maxWidth ELSE originalHeight
           hd == IF byWidth THEN originalWidth ELSE 1
           w1 == IF byWidth THEN maxWidth ELSE originalWidth
           byHeight == maxHeight # 0 /\ hn > maxHeight * hd
       IN [width |-> IF byHeight THEN Round(w1 * maxHeight * hd, hn, 0) ELSE w1,
           height |-> IF byHeight THEN maxHeight ELSE Round(hn, hd, 0)]

\* calculateDimensions: newHeight is hn / hd after the width clamp, newWidth is
\* wn / wd after the height clamp
calculateDimensions(originalWidth, originalHeight, maxWidth, maxHeight, err) ==
  IF maxWidth = 0 /\ maxHeight = 0
    THEN [width |-> originalWidth, height |-> originalHeight]
  ELSE LET byWidth == maxWidth # 0 /\ originalWidth > maxWidth
           hn == IF byWidth THEN originalHeight * maxWidth ELSE originalHeight
           hd == IF byWidth THEN originalWidth ELSE 1
           w1 == IF byWidth THEN maxWidth ELSE originalWidth
           byHeight == maxHeight # 0 /\ hn > maxHeight * hd
           wn == IF byHeight THEN w1 * maxHeight * hd ELSE w1
           wd == IF byHeight THEN hn ELSE 1
           inexact == byHeight /\ ~Representable(hn, hd)
       IN [width |-> Round(wn, wd, IF inexact THEN err ELSE 0),
           height |-> IF byHeight THEN maxHeight ELSE Round(hn, hd, 0)]

\* calculateDimensions of the worker file: the height clamp assigns newHeight
\* first, so its quotient (newWidth * maxHeight) / newHeight divides by maxHeight
\* and is newWidth again, exactly
workerCalculateDimensions(originalWidth, originalHeight, maxWidth, maxHeight) ==
  IF maxWidth = 0 /\ maxHeight = 0
    THEN [width |-> originalWidth, height |-> originalHeight]
  ELSE LET byWidth == maxWidth # 0 /\ originalWidth > maxWidth
           w1 == IF byWidth THEN maxWidth ELSE originalWidth
           hn == IF byWidth THEN originalHeight * maxWidth ELSE originalHeight
           hd == IF byWidth THEN originalWidth ELSE 1
           byHeight == maxHeight # 0 /\ hn > maxHeight * hd
           h2 == IF byHeight THEN maxHeight ELSE Round(hn, hd, 0)
           wn == IF byHeight THEN w1 * maxHeight ELSE w1
           wd == IF byHeight THEN maxHeight ELSE 1
       IN [width |-> Round(wn, wd, 0), height |-> h2]

\* compressWithWASM / compressWithCanvas: the call of calculateDimensions on the
\* decoded bitmap's size and the settings' bounds; the worker file's function is
\* applied to the same arguments
CalculateDimensions(originalWidth, originalHeight, maxWidth, maxHeight, err) ==
  /\ ~dims.called
  /\ dims' = [called |-> TRUE,
              originalWidth |-> originalWidth, originalHeight |-> originalHeight,
              maxWidth |-> maxWidth, maxHeight |-> maxHeight,
              width |-> calculateDimensions(originalWidth, originalHeight,
                                            maxWidth, maxHeight, err).width,
              height |-> calculateDimensions(originalWidth, originalHeight,
                                             maxWidth, maxHeight, err).height,
              worker |-> workerCalculateDimensions(originalWidth, originalHeight,
                                                   maxWidth, maxHeight)]
  /\ UNCHANGED <<options, cmp, ncompress, prepared, poolVars, codecVars>>

\* one call is observed, with any arguments
DimsNext ==
  /\ ~dims.called
  /\ \E originalWidth, originalHeight \in Sides, maxWidth, maxHeight \in Limits,
        err \in RoundingErrors :
       CalculateDimensions(originalWidth, originalHeight, maxWidth, maxHeight, err)

SpecDims == Init /\ [][DimsNext]_vars

(***************************************************************************)
(* prepareWASMOptions.  The encoder options are the codec's defaultOptions, *)
(* spread into a fresh object, with the keys the switch assigns.  The       *)
(* defaults come from the @jsquash packages; the model records whose        *)
(* defaults were spread and the two keys the switch can assign.             *)
(***************************************************************************)

\* settings.quality: the range of the quality slider
Qualities == 1..100

\* settings.format on the WASM path
WasmFormats == {"jpeg", "webp", "avif", "png"}

\* prepareWASMOptions with the AVIF level taken as the quality itself (a mutant
\* of prepareWASMOptions)
prepareWASMOptions_Direct(format, quality) ==
  LET defaultOptions == [defaults |-> getCodecName(format),
                         quality |-> Unset, cqLevel |-> Unset]
  IN CASE format \in {"jpeg", "webp"} -> [defaultOptions EXCEPT !.quality = quality]
       [] format = "avif" -> [defaultOptions EXCEPT !.cqLevel = quality]
       [] OTHER -> defaultOptions

\* prepareWASMOptions; Math.round((100 - quality) * 0.63) is exact on integers
\* (the one tie, quality 50, is 31.5 in doubles as well)
prepareWASMOptions(format, quality) ==
  LET defaultOptions == [defaults |-> getCodecName(format),
                         quality |-> Unset, cqLevel |-> Unset]
  IN CASE format = "jpeg" -> [defaultOptions EXCEPT !.quality = quality]
       [] format = "webp" -> [defaultOptions EXCEPT !.quality = quality]
       [] format = "avif" ->
            [defaultOptions EXCEPT !.cqLevel = Round((100 - quality) * 63, 100, 0)]
       [] OTHER -> defaultOptions

\* compressWithWASM: the call of prepareWASMOptions on the settings
PrepareWASMOptions(format, quality) ==
  /\ prepared' = [called |-> TRUE, format |-> format, quality |-> quality,
                  options |-> prepareWASMOptions(format, quality)]
  /\ UNCHANGED <<options, cmp, ncompress, dims, poolVars, codecVars>>

\* one call is observed, with any arguments
PrepareNext ==
  /\ ~prepared.called
  /\ \E format \in WasmFormats, quality \in Qualities :
       PrepareWASMOptions(format, quality)

SpecPrepare == Init /\ [][PrepareNext]_vars

\* what the event loop guarantees: a file read ends, a live worker answers,
\* and timers fire.  Submissions and faults are never forced; destroy() is absent.
PoolFairness ==
  /\ WF_vars(ProcessQueueWake)
  /\ WF_vars(CooldownExpire)
  /\ \A c \in 1..MaxCalls : WF_vars(ReadDone(c) \/ ReadFail(c))
  /\ \A c \in 1..MaxCalls : WF_vars(\E type \in {"success", "error"} : WorkerReply(c, type))

SpecPool == Init /\ [][PoolNext]_vars

SpecPoolLive == Init /\ [][PoolNextLive]_vars /\ PoolFairness

SpecPoolTeardown == Init /\ [][PoolTeardownNext]_vars

SpecPoolMsg == Init /\ [][PoolMsgNext]_vars

----------------------------------------------------------------------------
(* Properties of the pool *)

\* calls handed to worker w whose message was posted and not yet answered
Outstanding(w) ==
  {c \in DOMAIN calls : calls[c].st = "posted" /\ calls[c].worker = w}

\* calls handed to worker w that have not finished (reading their bytes or posted)
Assigned(w) ==
  {c \in DOMAIN calls : calls[c].st \in {"reading", "posted"} /\ calls[c].worker = w}

\* the caller of call c still waits for an answer
Pending(c) ==
  /\ c \in DOMAIN calls
  /\ calls[c].outcome = "none"
  /\ calls[c].st \in {"reading", "posted", "queued"}

Settled(c) == c \in DOMAIN calls /\ calls[c].outcome # "none"

BatchCalls == {c \in DOMAIN calls : calls[c].batch}

\* C1: no execution context ever has more than one dispatched-and-unsettled job
C1_OneJobPerContext ==
  \A w \in Range(workers) : Cardinality(Outstanding(w)) <= 1

\* C2: every submitted job is eventually settled (resolved or rejected) in every
\* fair execution without destroy()
C2_EveryCallSettles ==
  \A c \in 1..MaxCalls : (c \in DOMAIN calls) ~> Settled(c)

\* C3: a worker fault rejects every job pending at that moment (dispatched, queued
\* or still reading its bytes) and leaves the task set and the queue empty
C3_FaultRejectsAllPending ==
  [][nfaults' = nfaults + 1 =>
       /\ \A c \in DOMAIN calls : Pending(c) => calls'[c].outcome = "rejected"
       /\ DOMAIN tasks' = {}
       /\ Len(queue') = 0]_vars

\* C8: the queue does not stay non-empty forever while a context is idle: the head
\* of the queue eventually leaves the queue
C8_QueueDrains ==
  \A c \in 1..MaxCalls :
    (/\ Len(queue) > 0
     /\ Head(queue) = c
     /\ \E w \in Range(workers) : Assigned(w) = {})
      ~> (c \in DOMAIN calls /\ calls[c].st # "queued")

\* C9: queued jobs are dispatched in FIFO order, and a job leaves the queue for
\* dispatch only in a step in which an idle context exists and is handed to it
C9_FifoDequeueToIdle ==
  [][LET out == {c \in DOMAIN calls :
                   calls[c].st = "queued" /\ calls'[c].st = "reading"}
     IN /\ \A c \in out : \A i \in 1..Len(queue) :
              (queue[i] = c) => \A j \in 1..i : queue[j] \in out
        /\ \A c \in out : /\ calls'[c].worker \in Range(workers)
                          /\ Assigned(calls'[c].worker) = {}
        /\ \A c, d \in out : c # d => calls'[c].worker # calls'[d].worker]_vars

\* C10: a batch of K > N images eventually has all its jobs settled (and so the
\* batch promise resolved) in every fair execution without destroy()
C10_BatchSettles ==
  (Cardinality(BatchCalls) > maxWorkers) ~> (\A c \in BatchCalls : Settled(c))

\* the callback the outcome of a promise of the map leads to
CallbackOf(outcome) ==
  CASE outcome = "resolved" -> "complete"
    [] outcome = "rejected" -> "error"
    [] OTHER -> "none"

C12_JobErrorFrame ==
  [][\A c \in DOMAIN calls :
       (calls[c].st = "posted" /\ calls'[c].st = "answered"
          /\ calls'[c].reply = "error") =>
         LET X == calls[c].id
         IN /\ DOMAIN tasks' = DOMAIN tasks \ {X}
            /\ \A i \in DOMAIN tasks' : tasks'[i] = tasks[i]
            /\ workers' = workers
            /\ queue' = queue
            /\ isProcessing' = isProcessing
            /\ \A d \in DOMAIN calls \ {c} :
                 \/ calls'[d] = calls[d]
                 \/ /\ calls[d].id = X
                    /\ X \in DOMAIN tasks
                    /\ tasks[X].call = d
                    /\ calls'[d].outcome = "rejected"
                    /\ calls'[d].st = calls[d].st
            /\ calls'[c].outcome \in {calls[c].outcome, "rejected"}]_vars

\* job X was rejected by its own 'error' message and a job with another id, its
\* task untouched, was resolved by its own 'success' message
C12_Witness ==
  \E c, d \in DOMAIN calls :
    /\ calls[c].id # calls[d].id
    /\ calls[c].reply = "error"
    /\ calls[c].outcome = "rejected"
    /\ calls[d].reply = "success"
    /\ calls[d].outcome = "resolved"

\* C13: a worker fault terminates every worker and arms the cool-down timer; when
\* the timer fires the pool holds maxWorkers live workers again; and a job
\* submitted after the cool-down, while no job is queued or assigned to a live
\* worker (and destroy() was never called), is dispatched to one of them
C13_FaultRecovery ==
  [][/\ nfaults' = nfaults + 1 => (workers' = <<>> /\ timers' = timers + 1)
     /\ timers' = timers - 1 =>
          /\ Len(workers') = maxWorkers
          /\ \A w \in Range(workers') : w \notin Range(workers) => w > created
     /\ (/\ Len(calls') = Len(calls) + 1
         /\ nfaults > 0 /\ timers = 0 /\ ndestroys = 0
         /\ Len(queue) = 0
         /\ \A w \in Range(workers) : Assigned(w) = {}) =>
          LET c == Len(calls')
          IN /\ Len(workers') = maxWorkers
             /\ calls'[c].st = "reading"
             /\ calls'[c].worker \in Range(workers')]_vars

\* C14: a messageerror event of a worker is handled exactly as a worker error:
\* every registered task is rejected, the pool is torn down and the cool-down
\* timer that rebuilds it is armed
C14_MessageErrorIsFault ==
  [][nmsgerrors' = nmsgerrors + 1 =>
       /\ <<workers', tasks', queue', isProcessing', calls', batchp'>> =
            LET st == Microtasks(handleWorkerError(PoolState))
            IN <<st.workers, st.tasks, st.queue, st.isProcessing, st.calls,
                 st.batchp>>
       /\ timers' = timers + 1]_vars

\* C15: the caller's promise of a job is settled at most once, and once it is
\* settled no progress or method-info callback of that job is invoked
C15_SettleOnceThenSilent ==
  [][\A c \in DOMAIN calls :
       /\ calls[c].outcome # "none" =>
            /\ calls'[c].outcome = calls[c].outcome
            /\ calls'[c].notified = calls[c].notified
       /\ calls'[c].notified # "late"]_vars

----------------------------------------------------------------------------
(* Properties of the codec cache *)

\* how many times config.loader() of the codec has been invoked
Invocations(ls, codecName) ==
  Cardinality({l \in 1..Len(ls) : ls[l].codec = codecName /\ ls[l].invoked})

\* the getCodec calls that awaited load l
Awaiters(l) == {k \in DOMAIN gcalls : gcalls[k].load = l}

\* every call that awaited a settled load and has returned got that load's outcome
SharedOutcome(gs, ls) ==
  \A k \in DOMAIN gs :
    (gs[k].load # 0 /\ gs[k].pc = "done") =>
      gs[k].result = IF ls[gs[k].load].status = "resolved"
                       THEN Module(gs[k].load) ELSE NullResult

\* C4 as stated: of the getCodec calls for one codec issued while it is not loaded,
\* the one that finds no load in flight invokes the loader exactly once, the others
\* invoke nothing and await the load in flight, and all receive its outcome
C4_OneLoadPerBurst ==
  [][(Len(gcalls') = Len(gcalls) + 1) =>
       LET k == Len(gcalls')
           c == gcalls'[k].codec
       IN /\ (c # NoCodec /\ loadedCodecs[c] = 0) =>
               IF loadingPromises[c] = 0
                 THEN /\ Invocations(loads', c) = Invocations(loads, c) + 1
                      /\ gcalls'[k].load = Len(loads')
                      /\ loadingPromises'[c] = Len(loads')
                 ELSE /\ loads' = loads
                      /\ gcalls'[k].load = loadingPromises[c]
          /\ SharedOutcome(gcalls', loads')]_vars

\* C4 as amended: the first caller invokes the loader exactly once when the codec's
\* attempt count is below the retry ceiling and not at all at the ceiling (its load
\* is then already rejected); the later callers await that load; all callers of a
\* load receive its outcome
C4_OneLoadPerBurstBelowCeiling ==
  [][/\ (Len(gcalls') = Len(gcalls) + 1) =>
          LET k == Len(gcalls')
              c == gcalls'[k].codec
          IN (c # NoCodec /\ loadedCodecs[c] = 0) =>
               IF loadingPromises[c] = 0
                 THEN /\ Invocations(loads', c) = Invocations(loads, c) +
                           (IF loadAttempts[c] < maxRetries THEN 1 ELSE 0)
                      /\ gcalls'[k].load = Len(loads')
                      /\ loadingPromises'[c] = Len(loads')
                 ELSE /\ loads' = loads
                      /\ gcalls'[k].load = loadingPromises[c]
     /\ SharedOutcome(gcalls', loads')]_vars

\* K = 2 calls under two aliases of one codec shared one load, invoked once, and
\* both returned
C4_Witness ==
  \E l \in DOMAIN loads :
    /\ loads[l].invoked
    /\ Invocations(loads, loads[l].codec) = 1
    /\ \E j, k \in Awaiters(l) :
         /\ gcalls[j].format # gcalls[k].format
         /\ gcalls[j].pc = "done" /\ gcalls[k].pc = "done"
         /\ gcalls[j].result = gcalls[k].result

\* C5: without dispose() the loader of a codec is invoked at most maxRetries = 2
\* times however many getCodec calls are made, and a call made after the second
\* failure awaits only a promise that is already rejected and returns null
C5_RetryCeiling ==
  ndisposes = 0 =>
    /\ \A c \in Codecs : Invocations(loads, c) <= maxRetries
    /\ \A k \in DOMAIN gcalls :
         gcalls[k].failures >= maxRetries =>
           /\ gcalls[k].load # 0
           /\ loads[gcalls[k].load].status = "rejected"
           /\ gcalls[k].pc = "done" => gcalls[k].result = NullResult

\* a codec has failed twice and a later call has returned null without a third load
C5_Witness ==
  /\ ndisposes = 0
  /\ \E k \in DOMAIN gcalls :
       /\ gcalls[k].failures = maxRetries
       /\ gcalls[k].pc = "done"
       /\ gcalls[k].result = NullResult
       /\ Invocations(loads, gcalls[k].codec) = maxRetries

----------------------------------------------------------------------------
(* Properties of the compressor *)

\* C6: with fallback enabled, compress resolves whenever the fallback path alone
\* would succeed on the input, whatever happens on the WASM path
C6_FallbackGuarantee ==
  (cmp.pc = "done" /\ options.fallbackToCanvas /\ cmp.canvasFails = "none")
    => cmp.outcome = "resolved"

\* the WASM path threw in its encoder and compress resolved through the fallback
C6_Witness ==
  /\ cmp.pc = "done"
  /\ options.fallbackToCanvas
  /\ cmp.wasmError = "encode"
  /\ cmp.outcome = "resolved"
  /\ cmp.result.method = "canvas"

\* C7: when the WASM path throws, with fallbackToCanvas the fallback path runs and
\* its outcome is the outcome of compress; without it compress rejects with the
\* WASM path's exception and the fallback path never runs
C7_CatchPolicy ==
  (cmp.useWASM /\ cmp.wasmError # "none") =>
    IF options.fallbackToCanvas
      THEN /\ cmp.canvasRan
           /\ cmp.pc = "done" =>
                IF cmp.canvasFails = "none"
                  THEN cmp.outcome = "resolved" /\ cmp.result.method = "canvas"
                  ELSE /\ cmp.outcome = "rejected"
                       /\ cmp.error = <<"canvas", cmp.canvasFails>>
      ELSE /\ ~cmp.canvasRan
           /\ cmp.pc = "done"
           /\ cmp.outcome = "rejected"
           /\ cmp.error = <<"wasm", cmp.wasmError>>

\* the WASM path threw with fallback disabled and compress rejected with its error
C7_Witness ==
  /\ cmp.useWASM
  /\ cmp.wasmError = "decode"
  /\ ~options.fallbackToCanvas
  /\ cmp.pc = "done"
  /\ cmp.error = <<"wasm", "decode">>

\* C16: within one compress call the percentages delivered to the progress
\* callback never decrease, whichever path or paths the call takes
C16_ProgressMonotone ==
  \A i, j \in 1..Len(cmp.progress) :
    i <= j => cmp.progress[i] <= cmp.progress[j]

\* C17: getCodec never rejects: a call that has returned resolved to null or to
\* the module of a resolved load of its codec, and to null when the format has no
\* codec, when the load it awaited (its own or another call's) was rejected, and
\* when the retry ceiling kept the loader from being invoked
C17_GetCodecNeverRejects ==
  \A k \in DOMAIN gcalls :
    LET call == gcalls[k]
    IN /\ call.result # Thrown
       /\ call.codec = NoCodec => (call.pc = "done" /\ call.result = NullResult)
       /\ call.pc = "done" =>
            /\ \/ call.result = NullResult
               \/ \E l \in DOMAIN loads :
                    /\ call.result = Module(l)
                    /\ loads[l].status = "resolved"
                    /\ loads[l].codec = call.codec
            /\ (call.load # 0 /\ loads[call.load].status = "rejected") =>
                 call.result = NullResult
            /\ (call.load # 0 /\ ~loads[call.load].invoked) =>
                 call.result = NullResult

\* a call for an unsupported format returned null, and so did a call that had
\* awaited another call's load, which failed
C17_Witness ==
  /\ \E k \in DOMAIN gcalls :
       gcalls[k].codec = NoCodec /\ gcalls[k].result = NullResult
  /\ \E j, k \in DOMAIN gcalls :
       /\ j # k
       /\ gcalls[j].load # 0 /\ gcalls[k].load = gcalls[j].load
       /\ loads[gcalls[j].load].invoked
       /\ loads[gcalls[j].load].status = "rejected"
       /\ gcalls[j].pc = "done" /\ gcalls[j].result = NullResult
       /\ gcalls[k].pc = "done" /\ gcalls[k].result = NullResult

\* C18: a loaded codec stays loaded, with the same module handle, until dispose():
\* in every step without dispose() its cache entry is unchanged, its loader is
\* not invoked, and a getCodec call for it returns the cached handle at once
C18_LoadedStaysLoaded ==
  [][\A c \in Codecs :
       (loadedCodecs[c] # 0 /\ ndisposes' = ndisposes) =>
         /\ loadedCodecs'[c] = loadedCodecs[c]
         /\ Invocations(loads', c) = Invocations(loads, c)
         /\ (Len(gcalls') = Len(gcalls) + 1 /\ gcalls'[Len(gcalls')].codec = c) =>
              /\ gcalls'[Len(gcalls')].pc = "done"
              /\ gcalls'[Len(gcalls')].result = Module(loadedCodecs[c])]_vars

\* the getCodec calls for a codec made since the last dispose()
CallsSinceDispose(c) ==
  {k \in DOMAIN gcalls : gcalls[k].codec = c /\ gcalls[k].epoch = ndisposes}

\* C19: dispose() leaves no loaded module, no in-flight promise and no attempt
\* count, and afterwards the cache behaves as a new one: the first getCodec call
\* for a codec after dispose() starts a new load, with the loader invoked and the
\* attempt count at 1, whatever loads were in flight when dispose() was called
C19_DisposeResets ==
  [][/\ ndisposes' = ndisposes + 1 =>
          \A c \in Codecs : /\ loadedCodecs'[c] = 0
                            /\ loadingPromises'[c] = 0
                            /\ loadAttempts'[c] = 0
     /\ (Len(gcalls') = Len(gcalls) + 1 /\ ndisposes > 0) =>
          LET k == Len(gcalls')
              c == gcalls'[k].codec
          IN (c # NoCodec /\ CallsSinceDispose(c) = {}) =>
               /\ gcalls'[k].pc = "awaitOwn"
               /\ gcalls'[k].load = Len(loads')
               /\ Len(loads') = Len(loads) + 1
               /\ loads'[Len(loads')].invoked
               /\ loadAttempts'[c] = 1]_vars

\* C20: preloadCommonCodecs calls getCodec exactly twice, for 'jpeg' (MozJPEG) and
\* for 'webp' (WebP); its promise never rejects and resolves only when both calls
\* have returned; and a preload call whose own load resolved caches and returns
\* that module whatever became of the other codec
C20_PreloadTolerant ==
  [][/\ preload'.status # "rejected"
     /\ preload'.status = "resolved" =>
          \A k \in Range(preload'.calls) : gcalls'[k].pc = "done"
     /\ (preload.status = "none" /\ preload'.status # "none") =>
          /\ Len(gcalls') = Len(gcalls) + 2
          /\ preload'.calls = <<Len(gcalls) + 1, Len(gcalls) + 2>>
          /\ gcalls'[Len(gcalls) + 1].format = "jpeg"
          /\ gcalls'[Len(gcalls) + 1].codec = "mozjpeg"
          /\ gcalls'[Len(gcalls) + 2].format = "webp"
          /\ gcalls'[Len(gcalls) + 2].codec = "webp"
     /\ \A k \in Range(preload.calls) :
          (/\ gcalls[k].pc = "awaitOwn" /\ gcalls'[k].pc = "done"
           /\ loads[gcalls[k].load].status = "resolved") =>
            /\ gcalls'[k].result = Module(gcalls[k].load)
            /\ loadedCodecs'[gcalls[k].codec] = gcalls[k].load]_vars

\* a preload resolved although MozJPEG failed to load, with WebP loaded and cached
C20_Witness ==
  /\ preload.status = "resolved"
  /\ LET j == preload.calls[1]
         w == preload.calls[2]
     IN /\ gcalls[j].load # 0
        /\ loads[gcalls[j].load].invoked
        /\ loads[gcalls[j].load].status = "rejected"
        /\ gcalls[j].result = NullResult
        /\ gcalls[w].load # 0
        /\ gcalls[w].result = Module(gcalls[w].load)
        /\ loadedCodecs["webp"] = gcalls[w].load

\* C21: compress takes the WASM path exactly when preferWASM is set, the input is
\* no longer than maxWASMSize (50 MiB by default, 20 MiB in the worker; a length
\* equal to the ceiling qualifies) and the format has a codec; otherwise it runs
\* the fallback path at once and makes no getCodec call
C21_ShouldUseWASM ==
  [][/\ options'.constructed => options'.maxWASMSize \in {50 * MiB, 20 * MiB}
     /\ ncompress' = ncompress + 1 =>
          /\ cmp'.useWASM = (/\ options.preferWASM
                             /\ cmp'.byteLength <= options.maxWASMSize
                             /\ getCodecName(cmp'.format) # NoCodec)
          /\ cmp'.useWASM => (Len(gcalls') = Len(gcalls) + 1 /\ ~cmp'.canvasRan)
          /\ ~cmp'.useWASM => (gcalls' = gcalls /\ loads' = loads /\ cmp'.canvasRan
                                 /\ cmp'.pc = "canvas_decode")
     /\ ~cmp.useWASM => gcalls' = gcalls \/ ncompress' = ncompress + 1]_vars

\* in the worker's configuration an input of exactly 20 MiB took the WASM path
C21_Witness ==
  /\ options = WorkerOptions
  /\ cmp.byteLength = 20 * MiB
  /\ cmp.useWASM
  /\ cmp.gcall # 0

\* the scale factor min(1, maxWidth / w, maxHeight / h) over the bounds that
\* are set, as a fraction <<n, d>>
Scale(d) ==
  LET cands == {<<1, 1>>}
                 \cup (IF d.maxWidth # 0 THEN {<<d.maxWidth, d.originalWidth>>} ELSE {})
                 \cup (IF d.maxHeight # 0 THEN {<<d.maxHeight, d.originalHeight>>} ELSE {})
  IN CHOOSE s \in cands : \A t \in cands : s[1] * t[2] <= t[1] * s[2]

Abs(x) == IF x < 0 THEN -x ELSE x

\* both clamps of calculateDimensions applied to the call
BothClamps(d) ==
  /\ d.maxWidth # 0 /\ d.originalWidth > d.maxWidth
  /\ d.maxHeight # 0 /\ d.originalHeight * d.maxWidth > d.maxHeight * d.originalWidth

\* C22: the returned width never exceeds maxWidth when it is set and the returned
\* height never exceeds maxHeight when it is set
C22_WithinBounds ==
  dims.called =>
    /\ dims.maxWidth # 0 => dims.width <= dims.maxWidth
    /\ dims.maxHeight # 0 => dims.height <= dims.maxHeight

\* 800x400 with maxWidth 200 gave 200x100
C22_Witness ==
  /\ dims.called
  /\ dims.originalWidth = 800 /\ dims.originalHeight = 400
  /\ dims.maxWidth = 200 /\ dims.maxHeight = 0
  /\ dims.width = 200 /\ dims.height = 100

\* C23: there is one scale factor s <= 1 such that the returned width is less
\* than one pixel from w * s and the returned height less than one pixel from
\* h * s, also when both clamps apply in sequence
C23_AspectRatio ==
  dims.called =>
    LET s == Scale(dims)
    IN /\ s[1] <= s[2]
       /\ Abs(dims.width * s[2] - dims.originalWidth * s[1]) < s[2]
       /\ Abs(dims.height * s[2] - dims.originalHeight * s[1]) < s[2]

\* both clamps applied and the width was rounded off an exact half pixel
C23_Witness ==
  /\ dims.called
  /\ BothClamps(dims)
  /\ 2 * dims.originalWidth * dims.maxHeight = (2 * dims.width + 1) * dims.originalHeight

\* C24: when no bound is set or no set bound is exceeded the output is the input;
\* in every case neither side of the output exceeds that side of the input
C24_NeverEnlarges ==
  dims.called =>
    /\ dims.width <= dims.originalWidth
    /\ dims.height <= dims.originalHeight
    /\ (/\ dims.maxWidth = 0 \/ dims.originalWidth <= dims.maxWidth
        /\ dims.maxHeight = 0 \/ dims.originalHeight <= dims.maxHeight)
         => (dims.width = dims.originalWidth /\ dims.height = dims.originalHeight)

\* an image smaller than both bounds came back unchanged
C24_Witness ==
  /\ dims.called
  /\ dims.maxWidth > dims.originalWidth
  /\ dims.maxHeight > dims.originalHeight
  /\ dims.width = dims.originalWidth /\ dims.height = dims.originalHeight

\* C25: destroy() leaves the worker list, the task map and the queue empty and
\* isProcessing false, and no resolve, reject, progress or method-info callback of
\* a job that was pending when destroy() ran is invoked afterwards
C25_DestroyFrame ==
  [][/\ ndestroys' = ndestroys + 1 =>
          /\ workers' = <<>>
          /\ tasks' = <<>>
          /\ queue' = <<>>
          /\ isProcessing' = FALSE
          /\ \A c \in DOMAIN calls : Pending(c) =>
               /\ calls'[c].torn
               /\ calls'[c].outcome = "none"
               /\ calls'[c].notified = calls[c].notified
     /\ \A c \in DOMAIN calls :
          calls[c].torn =>
            /\ calls'[c].outcome = calls[c].outcome
            /\ calls'[c].notified = calls[c].notified]_vars

\* the types of message a worker posts
MessageTypes == {"progress", "method_info", "success", "error"}

\* C26: in every reachable state of the pool, a message tagged X touches only the
\* call of the task registered under X: progress and method_info leave the task
\* map as it is, success and error remove exactly the entry X, and a message whose
\* id has no entry changes nothing
C26_MessageFrame ==
  \A id \in Ids : \A type \in MessageTypes :
    LET st == PoolState
        r == handleWorkerMessage(st, id, type)
    IN /\ r.workers = workers /\ r.queue = queue /\ r.isProcessing = isProcessing
       /\ r.created = created /\ r.loops = loops /\ r.batchp = batchp
       /\ id \notin DOMAIN tasks => r = st
       /\ id \in DOMAIN tasks =>
            /\ \A c \in DOMAIN calls : c # tasks[id].call => r.calls[c] = calls[c]
            /\ type \in {"progress", "method_info"} =>
                 /\ r.tasks = tasks
                 /\ r.calls[tasks[id].call].outcome = calls[tasks[id].call].outcome
            /\ type \in {"success", "error"} =>
                 /\ DOMAIN r.tasks = DOMAIN tasks \ {id}
                 /\ \A i \in DOMAIN r.tasks : r.tasks[i] = tasks[i]
                 /\ r.calls[tasks[id].call].notified = calls[tasks[id].call].notified

\* two tasks were registered; one call got progress and then its success message,
\* the other call's task is still registered and has received nothing
C26_Witness ==
  \E c, d \in DOMAIN calls :
    /\ c # d
    /\ calls[c].reply = "success" /\ calls[c].outcome = "resolved"
    /\ calls[c].notified = "live"
    /\ calls[c].id \notin DOMAIN tasks
    /\ calls[d].st = "posted" /\ calls[d].outcome = "none"
    /\ calls[d].notified = "none"
    /\ calls[d].id \in DOMAIN tasks /\ tasks[calls[d].id].call = d

WasmPathLeft == cmp.useWASM /\ (cmp.wasmError # "none" \/ cmp.pc = "done")

\* C28: once the WASM path has been left, by its return or by an exception of
\* drawImage, getImageData or the encoder, the ImageBitmap it decoded is closed
\* and the canvas it created is released
C28_WasmReleases ==
  WasmPathLeft => (cmp.imageBitmap # "open" /\ cmp.canvas # "open")

\* C29: on the fallback path a request for 'avif' is serialised as image/webp,
\* never as image/avif; unless decoding or serialising itself fails, the call
\* resolves with the method tag of the fallback path and no codec name
C29_AvifFallback ==
  (cmp.canvasRan /\ cmp.format = "avif") =>
    /\ cmp.mime \in {"none", "image/webp"}
    /\ cmp.pc \in {"canvas_buffer", "done"} /\ cmp.outcome # "rejected" =>
         cmp.mime = "image/webp"
    /\ (cmp.pc = "done" /\ cmp.canvasFails = "none") =>
         /\ cmp.outcome = "resolved"
         /\ cmp.error = <<>>
         /\ cmp.result.method = "canvas"
         /\ cmp.result.codec = "none"
         /\ "codec" \notin cmp.result.keys

\* an 'avif' request was served by the fallback path and resolved
C29_Witness ==
  /\ cmp.format = "avif"
  /\ cmp.canvasRan
  /\ cmp.pc = "done"
  /\ cmp.outcome = "resolved"
  /\ cmp.mime = "image/webp"
  /\ cmp.result.method = "canvas"

\* getMimeType has a case for the format
HasMimeMapping(format) == format \in {"jpeg", "jpg", "png", "webp", "avif"}

\* C30: a request whose format has neither a codec nor a MIME mapping ends as a
\* failure of the call; it never resolves with a result in some other format
C30_UnsupportedFormatFails ==
  (/\ cmp.pc = "done"
   /\ getCodecName(cmp.format) = NoCodec
   /\ ~HasMimeMapping(cmp.format)) =>
    /\ cmp.outcome = "rejected"
    /\ cmp.result = <<>>

\* C31: for jpeg and webp the encoder quality is q; for avif the constant-quality
\* level is round((100 - q) * 0.63), within 0..62 and non-increasing in q; for png
\* nothing is derived from q and the codec's defaults go through unchanged
C31_QualityTranslation ==
  prepared.called =>
    LET o == prepared.options
        q == prepared.quality
    IN /\ o.defaults = getCodecName(prepared.format)
       /\ prepared.format \in {"jpeg", "webp"} =>
            (o.quality = q /\ o.cqLevel = Unset)
       /\ prepared.format = "avif" =>
            /\ o.quality = Unset
            /\ o.cqLevel \in 0..62
            /\ 100 * o.cqLevel - 63 * (100 - q) \in -49..50
            /\ \A q2 \in Qualities :
                 q2 > q => prepareWASMOptions("avif", q2).cqLevel <= o.cqLevel
       /\ prepared.format = "png" => (o.quality = Unset /\ o.cqLevel = Unset)

\* quality 50 for avif gave level 32, the rounding of 31.5
C31_Witness ==
  /\ prepared.called
  /\ prepared.format = "avif"
  /\ prepared.quality = 50
  /\ prepared.options.cqLevel = 32

\* the call resolved and its result was produced by the WASM path
ByWasmPath == cmp.outcome = "resolved" /\ ~cmp.canvasRan

\* the call resolved and its result was produced by the fallback path
ByFallbackPath == cmp.outcome = "resolved" /\ cmp.canvasRan

\* C32 as stated: every successful result carries compressedSize and dimensions;
\* the method tag and the encoder name are present only on results of the WASM
\* path, and a result of the fallback path carries no encoder name
C32_ResultShape ==
  cmp.outcome = "resolved" =>
    /\ {"compressedSize", "dimensions"} \subseteq cmp.result.keys
    /\ "method" \in cmp.result.keys => ByWasmPath
    /\ "codec" \in cmp.result.keys => ByWasmPath
    /\ ByFallbackPath => ("codec" \notin cmp.result.keys /\ cmp.result.codec = "none")

\* C32 amended: every successful result carries compressedSize, dimensions and a
\* method tag, 'wasm' on the WASM path and 'canvas' on the fallback path; the
\* encoder name is present exactly on results of the WASM path
C32_ResultShapeAmended ==
  cmp.outcome = "resolved" =>
    /\ {"compressedSize", "dimensions", "method"} \subseteq cmp.result.keys
    /\ ByWasmPath => cmp.result.method = "wasm"
    /\ ByFallbackPath => cmp.result.method = "canvas"
    /\ "codec" \in cmp.result.keys <=> ByWasmPath
    /\ ByWasmPath => cmp.result.codec = getCodecName(cmp.format)
    /\ ByFallbackPath => cmp.result.codec = "none"

\* a result of the fallback path: it has a method tag and no encoder name
C32_Witness ==
  /\ ByFallbackPath
  /\ cmp.pc = "done"
  /\ "method" \in cmp.result.keys
  /\ "codec" \notin cmp.result.keys

\* C33: on every successful compress call the last percentage delivered is 100
\* and none is delivered after it, on the WASM path and on the fallback path
C33_EndsAtHundred ==
  [][/\ cmp'.outcome = "resolved" =>
          /\ Len(cmp'.progress) > 0
          /\ cmp'.progress[Len(cmp'.progress)] = 100
          /\ \A i \in 1..(Len(cmp'.progress) - 1) : cmp'.progress[i] # 100
     /\ (cmp.outcome = "resolved" /\ ncompress' = ncompress) =>
          cmp'.progress = cmp.progress]_vars

\* a call resolved by the WASM path was followed by one resolved by the fallback
\* path after the WASM path had failed; its reports end at 100
C33_Witness ==
  /\ ncompress >= 2
  /\ ByFallbackPath
  /\ cmp.wasmError # "none"
  /\ cmp.progress[Len(cmp.progress)] = 100

\* C34: when a job that went through the queue has been dispatched and its worker
\* reports success or error, the promise compressImage returned to the job's
\* caller is still pending and is settled by that message accordingly
C34_QueuedJobKeepsCaller ==
  [][\A c \in DOMAIN calls :
       (/\ calls[c].via = "queue"
        /\ calls[c].st = "posted"
        /\ calls'[c].st = "answered") =>
         /\ calls[c].outcome = "none"
         /\ calls'[c].outcome = IF calls'[c].reply = "success"
                                  THEN "resolved" ELSE "rejected"]_vars

\* the messages of m with the given type
OfType(m, type) == {i \in 1..Len(m) : m[i] = type}

InFlight(codec) ==
  {l \in DOMAIN loads : loads[l].codec = codec /\ loads[l].status = "pending"}

\* C36: at most one module load is in flight per codec in every reachable state,
\* whatever the interleaving of getCodec, preloadCommonCodecs and dispose
C36_OneLoadInFlight ==
  \A codec \in Codecs : Cardinality(InFlight(codec)) <= 1

\* C37: at most one processQueue loop is active at any time, also when destroy()
\* or a fault resets isProcessing while a loop is suspended in its 100 ms wait and
\* a job is queued before that loop wakes up
C37_OneDrainLoop == loops <= 1

\* C38: once destroy() has been called, a step that submits no job never creates
\* a worker: the pool stays empty, also when the destroy() fell into the
\* cool-down after a fault
C38_DestroyedStaysEmpty ==
  [][(/\ ndestroys > 0
      /\ workers = <<>>
      /\ Len(calls') = Len(calls)) => workers' = <<>>]_vars

\* C39: for positive integer sizes and positive bounds the computed width and
\* height are both at least 1
C39_AtLeastOnePixel ==
  (dims.called /\ (dims.maxWidth > 0 \/ dims.maxHeight > 0)) =>
    (dims.width >= 1 /\ dims.height >= 1)

\* C40: the worker file's calculateDimensions returns the same width and height
\* as SmartCompressor.calculateDimensions for every input
C40_SameDimensions ==
  dims.called =>
    (dims.worker.width = dims.width /\ dims.worker.height = dims.height)

====
